---- MODULE Spec2Model ----
(***************************************************************************)
(* Model of the community-forum service of WattWise                        *)
(* (src/components/CommunityForum/services/ForumService.ts): the Firestore *)
(* documents it writes (forum posts, the votes sub-collection of a post,   *)
(* comments, notifications, summaries), its snapshot listeners and the     *)
(* asynchronous operations on them.  Every `await` of the source is one    *)
(* atomic step on the store, so that calls interleave exactly where the    *)
(* source suspends.                                                        *)
(***************************************************************************)
EXTENDS Integers, Sequences, FiniteSets, TLC

\* Document ids the store can hand out for posts, and the signed-in users.
PostIds == {"p1", "p2"}
Uids == {"A", "B"}
\* The users who write posts.
Authors == {"A"}
\* value: 1 | -1
Values == {1, -1}
\* Titles and contents as the callers pass them (before trim()).
RawTitles == {"t1"}
RawContents == {"c1", "c2 "}
\* Calls of generatePostSummary / generateCommentSummary that can be suspended
\* at the same time, and the snapshot listeners a client can hold.
Gens == {"g1", "g2"}
Subs == {"s1"}
\* Client calls of vote() that can be suspended at the same time.
Calls == {"c1", "c2"}
\* The one caller of the sequential specifications.
SeqCalls == {"c1"}

\* prev is null when the voter has no vote document
Null == 0

\* Bounds of the model
MaxCalls == 3
MaxSeqCalls == 4
MaxFailures == 1
MaxVotes == 2
MaxNotifications == 1
MaxEdits == 2
MaxComments == 1
MaxGenerations == 2
MaxUnsubscribes == 2
MaxOperations == 3

VARIABLES
    posts,          \* forumPosts: id -> [uid, title, content, upVotes,
                    \*                    downVotes]
    votes,          \* forumPosts/{postId}/votes/{uid}: set of documents
    notifications,  \* notifications collection: bag of documents
    call,           \* per client call of vote(): position and locals
    started,        \* number of vote() calls started
    failures,       \* number of store errors injected
    obs,            \* history, sequential caller: state before its call
    log,            \* history, sequential caller: the calls that returned
    comments,       \* forumComments, in order of createdAt
    postSummaries,  \* postSummaries collection: set of documents
    commentSummaries, \* commentSummaries collection: set of documents
    clock,          \* serverTimestamp() of the summary documents
    gen,            \* per call of generate*Summary(): position and locals
    sub,            \* per snapshot listener: query, state, deliveries
    edits,          \* number of updatePost() calls made
    generations,    \* number of generate*Summary() calls made
    invoked,        \* history per post: summarizer invocations per kind since
                    \* the summarized content last changed, content version
    notifyErrors    \* history: number of createNotification() calls that threw

storeVars == <<posts, votes, notifications>>
histVars == <<obs, log>>
summaryVars == <<postSummaries, commentSummaries, clock, gen, generations, invoked>>
forumVars == <<comments, postSummaries, commentSummaries, clock, gen, sub, edits,
               generations, invoked, notifyErrors>>
voteVars == <<votes, call, started, failures, obs, log>>
vars == <<posts, votes, notifications, call, started, failures, obs, log,
          comments, postSummaries, commentSummaries, clock, gen, sub, edits,
          generations, invoked, notifyErrors>>

----------------------------------------------------------------------------
\* The store primitives, as the Firestore SDK defines them.

\* doc(db, FORUM_POSTS, postId, VOTES, uid): the path of the vote document
voteDocRef(postId, uid) == [postId |-> postId, id |-> uid]

AtRef(d, ref) == d.postId = ref.postId /\ d.id = ref.id

\* getDoc: the snapshot of the documents at ref (empty when none exists)
getDoc(store, ref) == {d \in store : AtRef(d, ref)}

\* existingSnap.exists() ? (data.value ?? null) : null
prevOf(snap) == IF snap # {} THEN (CHOOSE d \in snap : TRUE).value ELSE Null

\* deleteDoc gone wrong: the document stays
deleteDoc_Keeps(store, ref) == store

\* deleteDoc(ref)
deleteDoc(store, ref) == {d \in store : ~AtRef(d, ref)}

\* setDoc gone wrong: an existing document keeps its old value
setDoc_NoOverwrite(store, ref, value) ==
    IF getDoc(store, ref) # {} THEN store
    ELSE store \cup {[postId |-> ref.postId, id |-> ref.id, value |-> value]}

\* setDoc gone wrong: a document is added and the one at ref stays (as addDoc)
setDoc_AddsDocument(store, ref, value) ==
    store \cup {[postId |-> ref.postId, id |-> ref.id, value |-> value]}

\* setDoc(ref, {value}, {merge: true}): the document at ref holds value
setDoc(store, ref, value) ==
    deleteDoc(store, ref) \cup {[postId |-> ref.postId, id |-> ref.id, value |-> value]}

\* updateDoc gone wrong: the fields overwrite the counters instead of adding
updateDoc_Overwrite(ps, postId, fields) ==
    [ps EXCEPT ![postId].upVotes = fields.upVotes,
               ![postId].downVotes = fields.downVotes]

\* updateDoc(postRef, fields) with FieldValue.increment operands
updateDoc(ps, postId, fields) ==
    [ps EXCEPT ![postId].upVotes = @ + fields.upVotes,
               ![postId].downVotes = @ + fields.downVotes]

\* addDoc(collection, data): one more document with these fields
addDoc(coll, data) ==
    IF data \in DOMAIN coll
    THEN [coll EXCEPT ![data] = @ + 1]
    ELSE coll @@ (data :> 1)

----------------------------------------------------------------------------
\* vote(): the pure parts

\* the branch vote() takes on (prev, value)
Classify(prev, value) ==
    IF prev = value THEN "Unvote"
    ELSE IF prev = Null THEN "Cast" ELSE "Switch"

\* fields gone wrong: the Unvote decrements the other counter
unvoteFields_WrongCounter(value) ==
    IF value = 1 THEN [upVotes |-> 0, downVotes |-> -1]
    ELSE [upVotes |-> -1, downVotes |-> 0]

\* fields of the Unvote branch
unvoteFields(value) ==
    IF value = 1 THEN [upVotes |-> -1, downVotes |-> 0]
    ELSE [upVotes |-> 0, downVotes |-> -1]

\* updateFields gone wrong: a switch does not decrement the counter it leaves
updateFields_NoSwitchDecrement(prev, value) ==
    IF value = 1 THEN [upVotes |-> 1, downVotes |-> 0]
    ELSE [upVotes |-> 0, downVotes |-> 1]

\* updateFields of the set-or-switch branch
updateFields(prev, value) ==
    IF prev = Null
    THEN (IF value = 1 THEN [upVotes |-> 1, downVotes |-> 0]
          ELSE [upVotes |-> 0, downVotes |-> 1])
    ELSE (IF value = 1 THEN [upVotes |-> 1, downVotes |-> -1]
          ELSE [upVotes |-> -1, downVotes |-> 1])

----------------------------------------------------------------------------
\* State of a call, and the initial state

IdleCall ==
    [pc |-> "idle", postId |-> "p1", uid |-> "A", value |-> 1, prev |-> Null,
     outcome |-> "None", failedAt |-> "None",
     ledgerWritten |-> FALSE, counterApplied |-> FALSE]

Free(c) == call[c].pc \in {"idle", "threw"}
Quiescent == \A c \in Calls : Free(c)

\* what a reader sees of (post, voter): the counters and the voter's vote
Snap(ps, store, postId, uid) ==
    [upVotes |-> ps[postId].upVotes,
     downVotes |-> ps[postId].downVotes,
     value |-> prevOf(getDoc(store, voteDocRef(postId, uid)))]

NoSnap == [upVotes |-> 0, downVotes |-> 0, value |-> Null]
NoObs == [pre |-> NoSnap, first |-> NoSnap, attempts |-> 0]

\* String.prototype.trim() on the strings the callers pass
trim(str) ==
    CASE str = "c2 " -> "c2"
      [] OTHER -> str

IdleGen ==
    [pc |-> "idle", kind |-> "post", postId |-> "p1", content |-> <<>>,
     commentCount |-> 0, version |-> 0, reached |-> "none", result |-> "none"]

IdleSub ==
    [state |-> "none", kind |-> "posts", postId |-> "p1", seen |-> <<>>,
     delivered |-> 0, unsubscribed |-> 0]

Init ==
    /\ posts = <<>>
    /\ votes = {}
    /\ notifications = <<>>
    /\ call = [c \in Calls |-> IdleCall]
    /\ started = 0
    /\ failures = 0
    /\ obs = NoObs
    /\ log = <<>>
    /\ comments = <<>>
    /\ postSummaries = {}
    /\ commentSummaries = {}
    /\ clock = 0
    /\ gen = [g \in Gens |-> IdleGen]
    /\ sub = [s \in Subs |-> IdleSub]
    /\ edits = 0
    /\ generations = 0
    /\ invoked = [postId \in PostIds |-> [post |-> 0, comments |-> 0, version |-> 0]]
    /\ notifyErrors = 0

----------------------------------------------------------------------------
\* createPost: addDoc with an id chosen by the store
createPost(uid, title, content) ==
    /\ \E id \in PostIds \ DOMAIN posts :
          posts' = posts @@ (id :> [uid |-> uid, title |-> trim(title),
                                    content |-> trim(content),
                                    upVotes |-> 0, downVotes |-> 0])
    /\ UNCHANGED <<votes, notifications, call, started, failures>>

----------------------------------------------------------------------------
\* vote(postId, uid, value): the call is made; the caller votes on a post it
\* has been shown, so the post exists.
vote(c, postId, uid, value) ==
    /\ Free(c)
    /\ postId \in DOMAIN posts
    /\ call' = [call EXCEPT ![c] =
                  [IdleCall EXCEPT !.pc = "L136", !.postId = postId, !.uid = uid,
                                   !.value = value]]
    /\ started' = started + 1
    /\ UNCHANGED <<posts, votes, notifications, failures>>

\* const existingSnap = await getDoc(voteDocRef); prev = ...; if (prev === value)
VoteGetDoc(c) ==
    /\ call[c].pc = "L136"
    /\ LET prev == prevOf(getDoc(votes, voteDocRef(call[c].postId, call[c].uid)))
       IN call' = [call EXCEPT ![c].prev = prev,
                               ![c].outcome = Classify(prev, call[c].value),
                               ![c].pc = IF Classify(prev, call[c].value) = "Unvote"
                                         THEN "L141" ELSE "L155"]
    /\ UNCHANGED <<posts, votes, notifications, started, failures>>

\* Unvote: await deleteDoc(voteDocRef)
VoteDeleteDoc(c) ==
    /\ call[c].pc = "L141"
    /\ votes' = deleteDoc(votes, voteDocRef(call[c].postId, call[c].uid))
    /\ call' = [call EXCEPT ![c].pc = "L143", ![c].ledgerWritten = TRUE]
    /\ UNCHANGED <<posts, notifications, started, failures>>

\* Unvote: await updateDoc(postRef, fields); the call returns
VoteUpdateDocUnvote(c) ==
    /\ call[c].pc = "L143"
    /\ posts' = updateDoc(posts, call[c].postId, unvoteFields(call[c].value))
    /\ call' = [call EXCEPT ![c].pc = "returned", ![c].counterApplied = TRUE]
    /\ UNCHANGED <<votes, notifications, started, failures>>

\* Set or switch: await updateDoc(postRef, updateFields)
VoteUpdateDoc(c) ==
    /\ call[c].pc = "L155"
    /\ posts' = updateDoc(posts, call[c].postId, updateFields(call[c].prev, call[c].value))
    /\ call' = [call EXCEPT ![c].pc = "L156", ![c].counterApplied = TRUE]
    /\ UNCHANGED <<votes, notifications, started, failures>>

\* Set or switch: await setDoc(voteDocRef, {value}, {merge: true}); the call returns
VoteSetDoc(c) ==
    /\ call[c].pc = "L156"
    /\ votes' = setDoc(votes, voteDocRef(call[c].postId, call[c].uid), call[c].value)
    /\ call' = [call EXCEPT ![c].pc = "returned", ![c].ledgerWritten = TRUE]
    /\ UNCHANGED <<posts, notifications, started, failures>>

\* an awaited store request rejects: the store is unchanged and vote() throws
StoreSteps == {"L136", "L141", "L143", "L155", "L156"}

VoteThrow(c) ==
    /\ call[c].pc \in StoreSteps
    /\ failures < MaxFailures
    /\ call' = [call EXCEPT ![c].pc = "threw", ![c].failedAt = call[c].pc]
    /\ failures' = failures + 1
    /\ UNCHANGED <<posts, votes, notifications, started>>

\* the caller makes the same call again after it threw
VoteRetry(c) ==
    /\ call[c].pc = "threw"
    /\ call' = [call EXCEPT ![c] =
                  [IdleCall EXCEPT !.pc = "L136", !.postId = call[c].postId,
                                   !.uid = call[c].uid, !.value = call[c].value]]
    /\ UNCHANGED <<posts, votes, notifications, started, failures>>

----------------------------------------------------------------------------
\* createNotification gone wrong: no document is written
createNotification_Dropped(type, toUid, fromUid, postId) ==
    UNCHANGED notifications

\* createNotification: addDoc to the notifications collection
createNotification(type, toUid, fromUid, postId) ==
    notifications' = addDoc(notifications,
        [type |-> type, toUid |-> toUid, fromUid |-> fromUid, postId |-> postId])

\* The caller of vote() and createNotification() (NotificationDispatcher):
\* one notification to the post's owner for Cast and Switch, none for Unvote.
maybeNotify(c) ==
    /\ call[c].pc = "returned"
    /\ IF call[c].outcome \in {"Cast", "Switch"}
       THEN createNotification(IF call[c].value = 1 THEN "upvote" ELSE "downvote",
                               posts[call[c].postId].uid, call[c].uid, call[c].postId)
       ELSE UNCHANGED notifications
    /\ call' = [call EXCEPT ![c] = IdleCall]
    /\ UNCHANGED <<posts, votes, started, failures>>

----------------------------------------------------------------------------
\* History of the sequential caller

\* the call is made: the state it starts from
ObserveCall(postId, uid) ==
    /\ obs' = [pre |-> Snap(posts, votes, postId, uid),
               first |-> Snap(posts, votes, postId, uid), attempts |-> 1]
    /\ UNCHANGED log

\* the call is made again
ObserveRetry(c) ==
    /\ obs' = [obs EXCEPT !.pre = Snap(posts, votes, call[c].postId, call[c].uid),
                          !.attempts = @ + 1]
    /\ UNCHANGED log

\* the call returned: what it was, and the state it leaves
ObserveReturn(c) ==
    /\ log' = Append(log,
          [postId |-> call[c].postId, uid |-> call[c].uid, value |-> call[c].value,
           outcome |-> call[c].outcome, attempts |-> obs.attempts,
           pre |-> obs.pre, first |-> obs.first,
           post |-> Snap(posts', votes', call[c].postId, call[c].uid)])
    /\ UNCHANGED obs

----------------------------------------------------------------------------
\* Specifications

\* Concurrent clients, store errors included.
Next ==
    \/ \E uid \in Authors : createPost(uid, "t1", "c1") /\ UNCHANGED <<histVars, forumVars>>
    \/ \E c \in Calls, postId \in PostIds, uid \in Uids, value \in Values :
          started < MaxCalls /\ vote(c, postId, uid, value) /\ UNCHANGED <<histVars, forumVars>>
    \/ \E c \in Calls : VoteGetDoc(c) /\ UNCHANGED <<histVars, forumVars>>
    \/ \E c \in Calls : VoteDeleteDoc(c) /\ UNCHANGED <<histVars, forumVars>>
    \/ \E c \in Calls : VoteUpdateDocUnvote(c) /\ UNCHANGED <<histVars, forumVars>>
    \/ \E c \in Calls : VoteUpdateDoc(c) /\ UNCHANGED <<histVars, forumVars>>
    \/ \E c \in Calls : VoteSetDoc(c) /\ UNCHANGED <<histVars, forumVars>>
    \/ \E c \in Calls : VoteThrow(c) /\ UNCHANGED <<histVars, forumVars>>
    \/ \E c \in Calls : maybeNotify(c) /\ UNCHANGED <<histVars, forumVars>>

Spec == Init /\ [][Next]_vars

\* Concurrent clients, no store errors.
RaceNext ==
    \/ \E uid \in Authors : createPost(uid, "t1", "c1") /\ UNCHANGED <<histVars, forumVars>>
    \/ \E c \in Calls, postId \in PostIds, uid \in Uids, value \in Values :
          started < MaxCalls /\ vote(c, postId, uid, value) /\ UNCHANGED <<histVars, forumVars>>
    \/ \E c \in Calls : VoteGetDoc(c) /\ UNCHANGED <<histVars, forumVars>>
    \/ \E c \in Calls : VoteDeleteDoc(c) /\ UNCHANGED <<histVars, forumVars>>
    \/ \E c \in Calls : VoteUpdateDocUnvote(c) /\ UNCHANGED <<histVars, forumVars>>
    \/ \E c \in Calls : VoteUpdateDoc(c) /\ UNCHANGED <<histVars, forumVars>>
    \/ \E c \in Calls : VoteSetDoc(c) /\ UNCHANGED <<histVars, forumVars>>
    \/ \E c \in Calls : maybeNotify(c) /\ UNCHANGED <<histVars, forumVars>>

SpecRace == Init /\ [][RaceNext]_vars

\* One call after another (each completes before the next starts), no errors.
SeqNext ==
    \/ \E uid \in Authors : Quiescent /\ createPost(uid, "t1", "c1") /\ UNCHANGED <<histVars, forumVars>>
    \/ \E c \in SeqCalls, postId \in PostIds, uid \in Uids, value \in Values :
          /\ Quiescent /\ started < MaxSeqCalls
          /\ vote(c, postId, uid, value) /\ ObserveCall(postId, uid) /\ UNCHANGED forumVars
    \/ \E c \in SeqCalls : VoteGetDoc(c) /\ UNCHANGED <<histVars, forumVars>>
    \/ \E c \in SeqCalls : VoteDeleteDoc(c) /\ UNCHANGED <<histVars, forumVars>>
    \/ \E c \in SeqCalls : VoteUpdateDocUnvote(c) /\ ObserveReturn(c) /\ UNCHANGED forumVars
    \/ \E c \in SeqCalls : VoteUpdateDoc(c) /\ UNCHANGED <<histVars, forumVars>>
    \/ \E c \in SeqCalls : VoteSetDoc(c) /\ ObserveReturn(c) /\ UNCHANGED forumVars
    \/ \E c \in SeqCalls : maybeNotify(c) /\ UNCHANGED <<histVars, forumVars>>

SpecSeq == Init /\ [][SeqNext]_vars

\* One call after another, with store errors and retries by the caller.
RetryNext ==
    \/ \E uid \in Authors : Quiescent /\ createPost(uid, "t1", "c1") /\ UNCHANGED <<histVars, forumVars>>
    \/ \E c \in SeqCalls, postId \in PostIds, uid \in Uids, value \in Values :
          /\ Quiescent /\ started < MaxCalls
          /\ vote(c, postId, uid, value) /\ ObserveCall(postId, uid) /\ UNCHANGED forumVars
    \/ \E c \in SeqCalls : VoteGetDoc(c) /\ UNCHANGED <<histVars, forumVars>>
    \/ \E c \in SeqCalls : VoteDeleteDoc(c) /\ UNCHANGED <<histVars, forumVars>>
    \/ \E c \in SeqCalls : VoteUpdateDocUnvote(c) /\ ObserveReturn(c) /\ UNCHANGED forumVars
    \/ \E c \in SeqCalls : VoteUpdateDoc(c) /\ UNCHANGED <<histVars, forumVars>>
    \/ \E c \in SeqCalls : VoteSetDoc(c) /\ ObserveReturn(c) /\ UNCHANGED forumVars
    \/ \E c \in SeqCalls : VoteThrow(c) /\ UNCHANGED <<histVars, forumVars>>
    \/ \E c \in SeqCalls : VoteRetry(c) /\ ObserveRetry(c) /\ UNCHANGED forumVars
    \/ \E c \in SeqCalls : maybeNotify(c) /\ UNCHANGED <<histVars, forumVars>>

SpecRetry == Init /\ [][RetryNext]_vars

----------------------------------------------------------------------------
\* Properties of sequential voting (SpecSeq)

\* the authoritative delta table: outcome and requested value -> counter deltas
DeltaRow(outcome, value) ==
    CASE outcome = "Cast" /\ value = 1 -> [upVotes |-> 1, downVotes |-> 0]
      [] outcome = "Cast" /\ value = -1 -> [upVotes |-> 0, downVotes |-> 1]
      [] outcome = "Unvote" /\ value = 1 -> [upVotes |-> -1, downVotes |-> 0]
      [] outcome = "Unvote" /\ value = -1 -> [upVotes |-> 0, downVotes |-> -1]
      [] outcome = "Switch" /\ value = -1 -> [upVotes |-> -1, downVotes |-> 1]
      [] outcome = "Switch" /\ value = 1 -> [upVotes |-> 1, downVotes |-> -1]

\* sum of the delta-table rows of the first k logged calls that are on postId
RECURSIVE DeltaSum(_, _, _)
DeltaSum(k, postId, field) ==
    IF k = 0 THEN 0
    ELSE DeltaSum(k - 1, postId, field)
         + (IF log[k].postId = postId
            THEN DeltaRow(log[k].outcome, log[k].value)[field] ELSE 0)

\* the first k logged calls on the post of call k are all by the voter of call k
OnlyVoter(k) ==
    \A j \in 1..k : log[j].postId = log[k].postId => log[j].uid = log[k].uid

\* C1: after each of the sequential calls of one voter on a post that started
\* at (0, 0), the counters are the delta-table sum of the transitions
\* classified so far, and neither counter is negative.
C1_DeltaTableSum ==
    \A k \in 1..Len(log) :
        OnlyVoter(k) =>
            /\ log[k].post.upVotes = DeltaSum(k, log[k].postId, "upVotes")
            /\ log[k].post.downVotes = DeltaSum(k, log[k].postId, "downVotes")
            /\ log[k].post.upVotes >= 0
            /\ log[k].post.downVotes >= 0

\* one voter has made a Cast, a Switch and an Unvote on one post, in that order
C1_Witness ==
    /\ Len(log) >= 3
    /\ OnlyVoter(3)
    /\ \A j \in 1..3 : log[j].postId = log[3].postId
    /\ log[1].outcome = "Cast"
    /\ log[2].outcome = "Switch"
    /\ log[3].outcome = "Unvote"

\* calls k and k+1 are the same (postId, uid, value), one right after the other
SameTwice(k) ==
    /\ log[k].postId = log[k + 1].postId
    /\ log[k].uid = log[k + 1].uid
    /\ log[k].value = log[k + 1].value

\* C2: a voter with no live vote who submits the same value twice in a row gets
\* Unvote on the second call, has no VoteRecord afterwards, and the counters are
\* back at their values before the first call.
C2_IdempotentToggle ==
    \A k \in 1..(Len(log) - 1) :
        (SameTwice(k) /\ log[k].pre.value = Null) =>
            /\ log[k + 1].outcome = "Unvote"
            /\ log[k + 1].post.value = Null
            /\ log[k + 1].post.upVotes = log[k].pre.upVotes
            /\ log[k + 1].post.downVotes = log[k].pre.downVotes

\* the toggle happened on a post that already carried another voter's vote
C2_Witness ==
    \E k \in 1..(Len(log) - 1) :
        /\ SameTwice(k)
        /\ log[k].pre.value = Null
        /\ log[k].pre.upVotes + log[k].pre.downVotes > 0
        /\ log[k + 1].outcome = "Unvote"

\* calls k, k+1, k+2 are v, -v, v by one voter on one post, starting from no vote
RoundTrip(k) ==
    /\ log[k].postId = log[k + 1].postId /\ log[k].postId = log[k + 2].postId
    /\ log[k].uid = log[k + 1].uid /\ log[k].uid = log[k + 2].uid
    /\ log[k].pre.value = Null
    /\ log[k + 1].value = -log[k].value
    /\ log[k + 2].value = log[k].value

\* C3: vote(v), vote(-v), vote(v) by a voter who had no vote leaves the counters
\* and the voter's VoteRecord as they were right after the first vote(v).
C3_SwitchRoundTrip ==
    \A k \in 1..(Len(log) - 2) :
        RoundTrip(k) => log[k + 2].post = log[k].post

\* a round trip that started with +1 has been made, through two switches
C3_Witness ==
    \E k \in 1..(Len(log) - 2) :
        /\ RoundTrip(k)
        /\ log[k].value = 1
        /\ log[k + 1].outcome = "Switch"
        /\ log[k + 2].outcome = "Switch"

----------------------------------------------------------------------------
\* Properties of the vote documents under concurrent calls (Spec)

\* C4: there is at most one VoteRecord per (postId, voterId), its value is +1 or
\* -1, and a voter without a record reads as having no vote.
C4_OneVotePerVoter ==
    /\ \A d1 \in votes, d2 \in votes :
          (d1.postId = d2.postId /\ d1.id = d2.id) => d1 = d2
    /\ \A d \in votes : d.value \in Values
    /\ \A postId \in PostIds, uid \in Uids :
          (getDoc(votes, voteDocRef(postId, uid)) = {})
              <=> (prevOf(getDoc(votes, voteDocRef(postId, uid))) = Null)

\* a voter's record is being overwritten by a switch while another voter's
\* record on the same post exists
C4_Witness ==
    \E c \in Calls :
        /\ call[c].pc = "returned"
        /\ call[c].outcome = "Switch"
        /\ Cardinality({d \in votes : d.postId = call[c].postId}) = 2

\* C5: in no state do the counters include the transition of a call whose
\* VoteRecord mutation has not been written.
C5_LedgerBeforeCounters ==
    \A c \in Calls : call[c].counterApplied => call[c].ledgerWritten

----------------------------------------------------------------------------
\* Properties of the counters under concurrent calls (SpecRace)

\* C6: upVotes >= 0 and downVotes >= 0 in every state.
C6_CountersNonNegative ==
    \A postId \in DOMAIN posts :
        posts[postId].upVotes >= 0 /\ posts[postId].downVotes >= 0

\* the VoteRecords of postId that hold value
RecordsWith(postId, value) == {d \in votes : d.postId = postId /\ d.value = value}

\* no call is between its first and its last store request
AllCompleted == \A c \in Calls : call[c].pc \notin StoreSteps

\* C7: once all concurrent calls have completed, upVotes is the number of +1
\* VoteRecords of the post and downVotes the number of -1 VoteRecords.
C7_EventuallyCorrect ==
    AllCompleted =>
        \A postId \in DOMAIN posts :
            /\ posts[postId].upVotes = Cardinality(RecordsWith(postId, 1))
            /\ posts[postId].downVotes = Cardinality(RecordsWith(postId, -1))

----------------------------------------------------------------------------
\* Properties of failing calls (SpecRetry)

\* the state vote(value) leaves from state s when every store request succeeds
SucceededOnce(s, value) ==
    IF s.value = value
    THEN [upVotes |-> s.upVotes + unvoteFields(value).upVotes,
          downVotes |-> s.downVotes + unvoteFields(value).downVotes,
          value |-> Null]
    ELSE [upVotes |-> s.upVotes + updateFields(s.value, value).upVotes,
          downVotes |-> s.downVotes + updateFields(s.value, value).downVotes,
          value |-> value]

\* C8: a call that failed and was retried to success leaves the VoteRecord and
\* the counters as one successful call would have.
C8_RetrySafe ==
    \A k \in 1..Len(log) :
        log[k].attempts > 1 => log[k].post = SucceededOnce(log[k].first, log[k].value)

\* C9: a call whose counter update failed leaves the voter's VoteRecord and both
\* counters as they were before the call.
C9_NoPartialState ==
    \A c \in SeqCalls :
        (call[c].pc = "threw" /\ call[c].failedAt \in {"L143", "L155"}) =>
            Snap(posts, votes, call[c].postId, call[c].uid) = obs.pre

----------------------------------------------------------------------------
\* Properties of the notifications (SpecSeq)

\* number of documents of bag that are in S
RECURSIVE BagCount(_, _)
BagCount(bag, S) ==
    IF S = {} THEN 0
    ELSE LET r == CHOOSE x \in S : TRUE
         IN bag[r] + BagCount(bag, S \ {r})

\* notifications appended for the votes of fromUid on postId
NotifCount(fromUid, postId) ==
    BagCount(notifications,
             {r \in DOMAIN notifications : r.fromUid = fromUid /\ r.postId = postId})

\* the logged calls of uid on postId with an outcome in outcomes
Submissions(uid, postId, outcomes) ==
    {k \in 1..Len(log) :
        log[k].uid = uid /\ log[k].postId = postId /\ log[k].outcome \in outcomes}

----------------------------------------------------------------------------
\* createNotification() called by any client, and its failure

\* the number of documents in the notifications collection
NotificationDocs == BagCount(notifications, DOMAIN notifications)

\* createNotification(type, toUid, fromUid, postId) resolves
createNotificationCall(type, toUid, fromUid, postId) ==
    /\ NotificationDocs < MaxNotifications
    /\ createNotification(type, toUid, fromUid, postId)
    /\ UNCHANGED <<posts, voteVars, comments, summaryVars, sub, edits, notifyErrors>>

\* createNotification gone wrong: a failed write takes the votes of the post back
createNotificationThrow_RollsBack(postId) ==
    /\ notifyErrors < MaxFailures
    /\ notifyErrors' = notifyErrors + 1
    /\ votes' = {d \in votes : d.postId # postId}
    /\ UNCHANGED <<posts, notifications, call, started, failures, obs, log, comments,
                   summaryVars, sub, edits>>

\* await addDoc(...) rejects: nothing is written and createNotification throws
createNotificationThrow(postId) ==
    /\ notifyErrors < MaxFailures
    /\ notifyErrors' = notifyErrors + 1
    /\ UNCHANGED <<posts, notifications, voteVars, comments, summaryVars, sub, edits>>

NotificationTypes == {"upvote", "downvote"}

\* Votes one after another, and notification requests of any client.
NotifyNext ==
    \/ \E uid \in Authors :
          Quiescent /\ createPost(uid, "t1", "c1") /\ UNCHANGED <<histVars, forumVars>>
    \/ \E c \in SeqCalls, postId \in PostIds, uid \in Uids, value \in Values :
          /\ Quiescent /\ started < MaxVotes
          /\ vote(c, postId, uid, value) /\ UNCHANGED <<histVars, forumVars>>
    \/ \E c \in SeqCalls : VoteGetDoc(c) /\ UNCHANGED <<histVars, forumVars>>
    \/ \E c \in SeqCalls : VoteDeleteDoc(c) /\ UNCHANGED <<histVars, forumVars>>
    \/ \E c \in SeqCalls : VoteUpdateDocUnvote(c) /\ UNCHANGED <<histVars, forumVars>>
    \/ \E c \in SeqCalls : VoteUpdateDoc(c) /\ UNCHANGED <<histVars, forumVars>>
    \/ \E c \in SeqCalls : VoteSetDoc(c) /\ UNCHANGED <<histVars, forumVars>>
    \/ \E c \in SeqCalls : maybeNotify(c) /\ UNCHANGED <<histVars, forumVars>>
    \/ \E type \in NotificationTypes, fromUid \in Uids, postId \in DOMAIN posts :
          createNotificationCall(type, posts[postId].uid, fromUid, postId)
    \/ \E postId \in DOMAIN posts : createNotificationThrow(postId)

SpecNotify == Init /\ [][NotifyNext]_vars

\* C11: no NotificationRecord with fromUid equal to toUid is ever appended.
C11_NoSelfNotification ==
    \A r \in DOMAIN notifications : r.fromUid # r.toUid

\* the counters of the posts
Counters(ps) == [postId \in DOMAIN ps |-> <<ps[postId].upVotes, ps[postId].downVotes>>]

\* C12: a step of createNotification, whether it writes the notification or
\* fails, leaves every VoteRecord and every post's upVotes/downVotes unchanged.
C12_NotificationIsolation ==
    [][(notifications' # notifications \/ notifyErrors' # notifyErrors)
          => (votes' = votes /\ Counters(posts') = Counters(posts))]_vars

\* a notification was written and another failed while a vote and its counter
\* change are in place
C12_Witness ==
    /\ notifyErrors > 0
    /\ NotificationDocs > 0
    /\ \E d \in votes : posts[d.postId].upVotes + posts[d.postId].downVotes > 0

----------------------------------------------------------------------------
\* Posts and comments: the writes that change what a summary is made from

\* updatePost gone wrong: the document is written anew, counters at 0
updatePost_ResetsCounters(postId, title, content) ==
    /\ postId \in DOMAIN posts
    /\ edits < MaxEdits
    /\ posts' = [posts EXCEPT ![postId].title = trim(title),
                              ![postId].content = trim(content),
                              ![postId].upVotes = 0,
                              ![postId].downVotes = 0]
    /\ edits' = edits + 1
    /\ invoked' = IF trim(content) # posts[postId].content
                  THEN [invoked EXCEPT ![postId].post = 0, ![postId].version = @ + 1]
                  ELSE invoked
    /\ UNCHANGED <<notifications, voteVars, comments, postSummaries, commentSummaries,
                   clock, gen, generations, sub, notifyErrors>>

\* updatePost: updateDoc(postRef, {title: title.trim(), content: content.trim()})
updatePost(postId, title, content) ==
    /\ postId \in DOMAIN posts
    /\ edits < MaxEdits
    /\ posts' = [posts EXCEPT ![postId].title = trim(title),
                              ![postId].content = trim(content)]
    /\ edits' = edits + 1
    /\ invoked' = IF trim(content) # posts[postId].content
                  THEN [invoked EXCEPT ![postId].post = 0, ![postId].version = @ + 1]
                  ELSE invoked
    /\ UNCHANGED <<notifications, voteVars, comments, postSummaries, commentSummaries,
                   clock, gen, generations, sub, notifyErrors>>

\* createComment: addDoc to forumComments
createComment(postId, uid, content) ==
    /\ postId \in DOMAIN posts
    /\ Len(comments) < MaxComments
    /\ comments' = Append(comments,
          [postId |-> postId, uid |-> uid, author |-> uid, content |-> trim(content)])
    /\ invoked' = [invoked EXCEPT ![postId].comments = 0]
    /\ UNCHANGED <<posts, notifications, voteVars, postSummaries, commentSummaries,
                   clock, gen, generations, sub, edits, notifyErrors>>

\* the comments of a post in order of createdAt, as subscribeToComments delivers
CommentsOf(postId) == SelectSeq(comments, LAMBDA cm : cm.postId = postId)

\* comments.map(c => `${c.author}: ${c.content}`).join('\n\n')
combinedContent(cms) == [i \in DOMAIN cms |-> <<cms[i].author, cms[i].content>>]

----------------------------------------------------------------------------
\* generatePostSummary / generateCommentSummary

\* generatePostSummary(postId, content) is called with the content the caller
\* shows; huggingFaceService.summarizeContent is invoked
generatePostSummary(g, postId) ==
    /\ gen[g].pc \in {"idle", "done"}
    /\ generations < MaxGenerations
    /\ postId \in DOMAIN posts
    /\ gen' = [gen EXCEPT ![g] =
                 [IdleGen EXCEPT !.pc = "summarize", !.reached = "summarize",
                                 !.kind = "post", !.postId = postId,
                                 !.content = posts[postId].content,
                                 !.version = invoked[postId].version]]
    /\ invoked' = [invoked EXCEPT ![postId].post = @ + 1]
    /\ generations' = generations + 1
    /\ UNCHANGED <<posts, notifications, voteVars, comments, postSummaries,
                   commentSummaries, clock, sub, edits, notifyErrors>>

\* generateCommentSummary(postId, comments) is called with the comments the
\* caller shows; huggingFaceService.summarizeContent is invoked
generateCommentSummary(g, postId) ==
    /\ gen[g].pc \in {"idle", "done"}
    /\ generations < MaxGenerations
    /\ postId \in DOMAIN posts
    /\ gen' = [gen EXCEPT ![g] =
                 [IdleGen EXCEPT !.pc = "summarize", !.reached = "summarize",
                                 !.kind = "comments",
                                 !.postId = postId,
                                 !.content = combinedContent(CommentsOf(postId)),
                                 !.commentCount = Len(CommentsOf(postId))]]
    /\ invoked' = [invoked EXCEPT ![postId].comments = @ + 1]
    /\ generations' = generations + 1
    /\ UNCHANGED <<posts, notifications, voteVars, comments, postSummaries,
                   commentSummaries, clock, sub, edits, notifyErrors>>

GenFrame == UNCHANGED <<posts, notifications, voteVars, comments, generations, invoked,
                        sub, edits, notifyErrors>>

\* summarizeContent resolves with a summary: if (summary) { await addDoc(...
GenSummarized(g) ==
    /\ gen[g].pc = "summarize"
    /\ gen' = [gen EXCEPT ![g].pc = "addDoc", ![g].reached = "addDoc"]
    /\ UNCHANGED <<postSummaries, commentSummaries, clock>>
    /\ GenFrame

\* summarizeContent resolves with no result: return null
GenNoSummary(g) ==
    /\ gen[g].pc = "summarize"
    /\ gen' = [gen EXCEPT ![g].pc = "done", ![g].result = "null"]
    /\ UNCHANGED <<postSummaries, commentSummaries, clock>>
    /\ GenFrame

\* generate*Summary gone wrong: the error of the summarizer reaches the caller
GenSummarizeThrows_Uncaught(g) ==
    /\ gen[g].pc = "summarize"
    /\ gen' = [gen EXCEPT ![g].pc = "done", ![g].result = "threw"]
    /\ UNCHANGED <<postSummaries, commentSummaries, clock>>
    /\ GenFrame

\* summarizeContent rejects: catch (error) { console.error(...); return null }
GenSummarizeThrows(g) ==
    /\ gen[g].pc = "summarize"
    /\ gen' = [gen EXCEPT ![g].pc = "done", ![g].result = "null"]
    /\ UNCHANGED <<postSummaries, commentSummaries, clock>>
    /\ GenFrame

\* the summary document of a call: the text is named by what it summarizes;
\* version is history (the content version the call was made for)
SummaryDoc(g, now) ==
    IF gen[g].kind = "post"
    THEN [postId |-> gen[g].postId, summary |-> [of |-> gen[g].content],
          updatedAt |-> now, version |-> gen[g].version]
    ELSE [postId |-> gen[g].postId, summary |-> [of |-> gen[g].content],
          commentCount |-> gen[g].commentCount, updatedAt |-> now]

\* await addDoc(collection(db, POST_SUMMARIES | COMMENT_SUMMARIES), {...});
\* return summary.summary
GenAddDoc(g) ==
    /\ gen[g].pc = "addDoc"
    /\ clock' = clock + 1
    /\ IF gen[g].kind = "post"
       THEN /\ postSummaries' = postSummaries \cup {SummaryDoc(g, clock + 1)}
            /\ UNCHANGED commentSummaries
       ELSE /\ commentSummaries' = commentSummaries \cup {SummaryDoc(g, clock + 1)}
            /\ UNCHANGED postSummaries
    /\ gen' = [gen EXCEPT ![g].pc = "done", ![g].result = "summary"]
    /\ GenFrame

\* addDoc rejects inside the try: nothing is written, return null
GenAddDocThrows(g) ==
    /\ gen[g].pc = "addDoc"
    /\ gen' = [gen EXCEPT ![g].pc = "done", ![g].result = "null"]
    /\ UNCHANGED <<postSummaries, commentSummaries, clock>>
    /\ GenFrame

\* the documents of coll about postId with the largest updatedAt:
\* where('postId', '==', postId), orderBy('updatedAt', 'desc'), limit(1)
LatestOf(coll, postId) ==
    {d \in coll : /\ d.postId = postId
                  /\ \A e \in coll : e.postId = postId => e.updatedAt <= d.updatedAt}

\* getPostSummary(postId): snapshot.docs[0] or null (here: the empty set)
getPostSummary(postId) == LatestOf(postSummaries, postId)

\* getCommentSummary(postId)
getCommentSummary(postId) == LatestOf(commentSummaries, postId)

\* One post, its comments and its summaries; the summary calls of two clients
\* interleave.
SummaryNext ==
    \/ \E uid \in Authors, title \in RawTitles, content \in RawContents :
          /\ DOMAIN posts = {}
          /\ createPost(uid, title, content)
          /\ UNCHANGED <<histVars, forumVars>>
    \/ \E postId \in PostIds, title \in RawTitles, content \in RawContents :
          updatePost(postId, title, content)
    \/ \E postId \in PostIds, uid \in Authors, content \in RawContents :
          createComment(postId, uid, content)
    \/ \E g \in Gens, postId \in PostIds : generatePostSummary(g, postId)
    \/ \E g \in Gens, postId \in PostIds : generateCommentSummary(g, postId)
    \/ \E g \in Gens : GenSummarized(g)
    \/ \E g \in Gens : GenNoSummary(g)
    \/ \E g \in Gens : GenSummarizeThrows(g)
    \/ \E g \in Gens : GenAddDoc(g)
    \/ \E g \in Gens : GenAddDocThrows(g)

SpecSummary == Init /\ [][SummaryNext]_vars

\* no generate*Summary call is in flight
NoGeneration == \A g \in Gens : gen[g].pc \in {"idle", "done"}

\* The same operations by one client: a call returns before the next is made.
SummarySeqNext ==
    \/ \E uid \in Authors, title \in RawTitles, content \in RawContents :
          /\ DOMAIN posts = {}
          /\ createPost(uid, title, content)
          /\ UNCHANGED <<histVars, forumVars>>
    \/ \E postId \in PostIds, title \in RawTitles, content \in RawContents :
          NoGeneration /\ updatePost(postId, title, content)
    \/ \E postId \in PostIds, uid \in Authors, content \in RawContents :
          NoGeneration /\ createComment(postId, uid, content)
    \/ \E g \in Gens, postId \in PostIds : NoGeneration /\ generatePostSummary(g, postId)
    \/ \E g \in Gens, postId \in PostIds : NoGeneration /\ generateCommentSummary(g, postId)
    \/ \E g \in Gens : GenSummarized(g)
    \/ \E g \in Gens : GenNoSummary(g)
    \/ \E g \in Gens : GenSummarizeThrows(g)
    \/ \E g \in Gens : GenAddDoc(g)
    \/ \E g \in Gens : GenAddDocThrows(g)

SpecSummarySeq == Init /\ [][SummarySeqNext]_vars

----------------------------------------------------------------------------
\* Claims about summaries

\* C13: while the summarized content of a post is unchanged the summarizer is
\* invoked at most once for it, and at most one summary document is kept for
\* that content (for the post text and for the comments alike).
C13_SummaryMemoized ==
    \A postId \in DOMAIN posts :
        /\ invoked[postId].post <= 1
        /\ invoked[postId].comments <= 1
        /\ Cardinality({d \in postSummaries :
              d.postId = postId /\ d.version = invoked[postId].version}) <= 1
        /\ Cardinality({d \in commentSummaries :
              /\ d.postId = postId
              /\ d.summary.of = combinedContent(CommentsOf(postId))}) <= 1

\* C14: a generate*Summary call whose summarizer throws or gives no result
\* returns null to its caller (no error reaches it), and that step writes no
\* summary document and changes none.
C14_FailureNotCached ==
    [][\A g \in Gens :
          (gen[g].pc = "summarize" /\ gen'[g].pc = "done")
             => /\ gen'[g].result = "null"
                /\ postSummaries' = postSummaries
                /\ commentSummaries' = commentSummaries]_vars

\* a call ended at the summarizer, with a summary of an earlier call in the store
C14_Witness ==
    \E g \in Gens :
        /\ gen[g].pc = "done"
        /\ gen[g].reached = "summarize"
        /\ gen[g].result = "null"
        /\ postSummaries \cup commentSummaries # {}

\* C15: what getPostSummary returns for a post was generated from the content
\* the post has now.
C15_NoStaleSummary ==
    \A postId \in DOMAIN posts :
        \A d \in getPostSummary(postId) : d.summary.of = posts[postId].content

\* C16: once a summary made for the present content version of a post is in
\* the store, what getPostSummary returns is a summary of the present content;
\* the result of a call made for an earlier version, arriving later, is not.
C16_LateResultLoses ==
    \A postId \in DOMAIN posts :
        (\E d \in postSummaries :
            d.postId = postId /\ d.version = invoked[postId].version)
        => \A d \in getPostSummary(postId) : d.summary.of = posts[postId].content

----------------------------------------------------------------------------
\* Subscriptions: subscribeTo* returns what onSnapshot returns

SubFrame == UNCHANGED <<posts, notifications, voteVars, comments, summaryVars, edits,
                        notifyErrors>>

\* what the query of a listener matches now
QueryResult(kind, postId) ==
    CASE kind = "posts" -> posts
      [] kind = "comments" -> CommentsOf(postId)
      [] kind = "postSummary" -> getPostSummary(postId)
      [] OTHER -> getCommentSummary(postId)

\* onSnapshot(q, snapshot => ...): a listener is attached
Listen(s, kind, postId) ==
    /\ sub[s].state = "none"
    /\ sub' = [sub EXCEPT ![s] = [IdleSub EXCEPT !.state = "active", !.kind = kind,
                                                 !.postId = postId]]
    /\ SubFrame

subscribeToPosts(s) == Listen(s, "posts", "p1")

subscribeToComments(s, postId) == Listen(s, "comments", postId)

subscribeToPostSummary(s, postId) == Listen(s, "postSummary", postId)

subscribeToCommentSummary(s, postId) == Listen(s, "commentSummary", postId)

\* the snapshot handler runs on the first snapshot and on every change of the
\* query result while the listener is attached: callback(...)
Deliver(s) ==
    /\ sub[s].state = "active"
    /\ sub[s].seen # <<QueryResult(sub[s].kind, sub[s].postId)>>
    /\ sub' = [sub EXCEPT ![s].seen = <<QueryResult(sub[s].kind, sub[s].postId)>>,
                          ![s].delivered = @ + 1]
    /\ SubFrame

\* a subscribeTo* that hands back a function which detaches nothing
unsubscribe_Detached(s) ==
    /\ sub[s].state \in {"active", "unsubscribed"}
    /\ sub[s].unsubscribed < MaxUnsubscribes
    /\ sub' = [sub EXCEPT ![s].unsubscribed = @ + 1]
    /\ SubFrame

\* the function subscribeTo* returned is called: the listener is detached
unsubscribe(s) ==
    /\ sub[s].state \in {"active", "unsubscribed"}
    /\ sub[s].unsubscribed < MaxUnsubscribes
    /\ sub' = [sub EXCEPT ![s].state = "unsubscribed", ![s].unsubscribed = @ + 1]
    /\ SubFrame

\* One post with its comments and summaries, written by one client, and a
\* listener on one of the four queries.
SubsNext ==
    \/ \E uid \in Authors, title \in RawTitles, content \in RawContents :
          /\ DOMAIN posts = {}
          /\ createPost(uid, title, content)
          /\ UNCHANGED <<histVars, forumVars>>
    \/ \E postId \in PostIds, title \in RawTitles, content \in RawContents :
          NoGeneration /\ updatePost(postId, title, content)
    \/ \E postId \in PostIds, uid \in Authors :
          NoGeneration /\ createComment(postId, uid, "c1")
    \/ \E postId \in PostIds : NoGeneration /\ generatePostSummary("g1", postId)
    \/ \E postId \in PostIds : NoGeneration /\ generateCommentSummary("g1", postId)
    \/ GenSummarized("g1")
    \/ GenAddDoc("g1")
    \/ \E s \in Subs : subscribeToPosts(s)
    \/ \E s \in Subs, postId \in DOMAIN posts : subscribeToComments(s, postId)
    \/ \E s \in Subs, postId \in DOMAIN posts : subscribeToPostSummary(s, postId)
    \/ \E s \in Subs, postId \in DOMAIN posts : subscribeToCommentSummary(s, postId)
    \/ \E s \in Subs : Deliver(s)
    \/ \E s \in Subs : unsubscribe(s)

SpecSubs == Init /\ [][SubsNext]_vars

\* C17: once the function returned by a subscribeTo* has been called, the
\* callback of that subscription is not invoked again whatever is written
\* afterwards, and a further call of the function changes nothing.
C17_UnsubscribeStops ==
    [][\A s \in Subs :
          sub[s].unsubscribed > 0
             => /\ sub'[s].delivered = sub[s].delivered
                /\ sub'[s].seen = sub[s].seen
                /\ sub'[s].state = sub[s].state]_vars

\* unsubscribe was called twice on a listener that had delivered, and the
\* query result has changed since without a delivery
C17_Witness ==
    \E s \in Subs :
        /\ sub[s].unsubscribed = 2
        /\ sub[s].delivered > 0
        /\ sub[s].seen # <<QueryResult(sub[s].kind, sub[s].postId)>>

----------------------------------------------------------------------------
\* The VoteRecord of a voter over sequential calls (SpecSeq)

\* the lifecycle cases that apply to a call that found prev and casts value
LifecycleCases(prev, value) ==
    {k \in {"Cast", "Switch", "Unvote"} :
        \/ k = "Cast" /\ prev = Null
        \/ k = "Switch" /\ prev = -value
        \/ k = "Unvote" /\ prev = value}

\* C18: a completed vote(postId, uid, v) with no other call in flight leaves
\* the voter's VoteRecord created with v if there was none (Cast), holding v
\* if it held -v (Switch), deleted if it held v (Unvote); exactly one of the
\* three cases applies to each call, and it is the branch the call took.
C18_VoteRecordLifecycle ==
    \A k \in 1..Len(log) :
        LET e == log[k] IN
        /\ LifecycleCases(e.pre.value, e.value) = {e.outcome}
        /\ e.outcome \in {"Cast", "Switch"} => e.post.value = e.value
        /\ e.outcome = "Unvote" => e.post.value = Null

\* a voter's record on a post has been created, flipped and deleted
C18_Witness ==
    \E i, j, k \in 1..Len(log) :
        /\ i < j /\ j < k
        /\ log[i].postId = log[j].postId /\ log[j].postId = log[k].postId
        /\ log[i].uid = log[j].uid /\ log[j].uid = log[k].uid
        /\ log[i].outcome = "Cast" /\ log[i].post.value # Null
        /\ log[j].outcome = "Switch" /\ log[j].post.value = -log[i].post.value
        /\ log[k].outcome = "Unvote" /\ log[k].post.value = Null

----------------------------------------------------------------------------
\* Calls of different voters interleave; the calls of one voter do not

\* no call of uid on postId is between its first and its last store request
NoneInFlight(postId, uid) ==
    \A c \in Calls :
        call[c].pc \in StoreSteps => ~(call[c].postId = postId /\ call[c].uid = uid)

\* the call is made: it is added to the history of calls, with the number of
\* calls in flight at that moment
ObserveStart(postId, uid, value) ==
    /\ log' = Append(log,
          [postId |-> postId, uid |-> uid, value |-> value, outcome |-> "None",
           attempts |-> 1, pre |-> Snap(posts, votes, postId, uid),
           first |-> Snap(posts, votes, postId, uid), post |-> NoSnap,
           inFlight |-> Cardinality({c \in Calls : call[c].pc \in StoreSteps})])
    /\ UNCHANGED obs

\* Concurrent clients on one post, no store errors; a voter waits for their
\* call on a post to return before voting on it again.
VotersNext ==
    \/ \E uid \in Authors :
          /\ DOMAIN posts = {}
          /\ createPost(uid, "t1", "c1")
          /\ UNCHANGED <<histVars, forumVars>>
    \/ \E c \in Calls, postId \in PostIds, uid \in Uids, value \in Values :
          /\ started < MaxSeqCalls
          /\ NoneInFlight(postId, uid)
          /\ vote(c, postId, uid, value)
          /\ ObserveStart(postId, uid, value)
          /\ UNCHANGED forumVars
    \/ \E c \in Calls : VoteGetDoc(c) /\ UNCHANGED <<histVars, forumVars>>
    \/ \E c \in Calls : VoteDeleteDoc(c) /\ UNCHANGED <<histVars, forumVars>>
    \/ \E c \in Calls : VoteUpdateDocUnvote(c) /\ UNCHANGED <<histVars, forumVars>>
    \/ \E c \in Calls : VoteUpdateDoc(c) /\ UNCHANGED <<histVars, forumVars>>
    \/ \E c \in Calls : VoteSetDoc(c) /\ UNCHANGED <<histVars, forumVars>>
    \/ \E c \in Calls : maybeNotify(c) /\ UNCHANGED <<histVars, forumVars>>

SpecVoters == Init /\ [][VotersNext]_vars

\* the values uid has cast on postId, in the order of the calls
ValuesCast(postId, uid) ==
    LET mine == SelectSeq(log, LAMBDA e : e.postId = postId /\ e.uid = uid)
    IN  [i \in DOMAIN mine |-> mine[i].value]

\* C19: when no two calls of one voter on one post overlap, however the calls
\* of different voters interleave, in every state with no call in flight
\* upVotes is the number of the post's +1 VoteRecords and downVotes the number
\* of its -1 VoteRecords; after A: +1, +1, -1 and B: -1 the post is at (0, 2).
C19_CountersAgreeAcrossVoters ==
    AllCompleted =>
        \A postId \in DOMAIN posts :
            /\ posts[postId].upVotes = Cardinality(RecordsWith(postId, 1))
            /\ posts[postId].downVotes = Cardinality(RecordsWith(postId, -1))
            /\ (ValuesCast(postId, "A") = <<1, 1, -1>> /\ ValuesCast(postId, "B") = <<-1>>)
                  => /\ posts[postId].upVotes = 0
                     /\ posts[postId].downVotes = 2

\* A has cast +1, +1, -1 and B -1 on a post, B's call overlapped one of A's,
\* and all four have returned
C19_Witness ==
    \E postId \in DOMAIN posts :
        /\ AllCompleted
        /\ ValuesCast(postId, "A") = <<1, 1, -1>>
        /\ ValuesCast(postId, "B") = <<-1>>
        /\ \E k \in 1..Len(log) : log[k].uid = "B" /\ log[k].inFlight > 0
        /\ posts[postId].upVotes = 0
        /\ posts[postId].downVotes = 2

----------------------------------------------------------------------------
\* All the operations of the forum, by one client

\* the operations made so far
Operations == started + edits + Len(comments) + generations + NotificationDocs

\* no operation is in flight and another may be made
MayCall == AllCompleted /\ NoGeneration /\ Operations < MaxOperations

\* Posts, votes, edits, comments, notifications and summaries, one operation
\* at a time, no store errors.
ForumNext ==
    \/ \E uid \in Authors :
          /\ AllCompleted /\ NoGeneration
          /\ createPost(uid, "t1", "c1")
          /\ UNCHANGED <<histVars, forumVars>>
    \/ \E c \in Calls, postId \in PostIds, uid \in Uids, value \in Values :
          /\ MayCall /\ started < MaxVotes
          /\ vote(c, postId, uid, value)
          /\ UNCHANGED <<histVars, forumVars>>
    \/ \E c \in Calls : VoteGetDoc(c) /\ UNCHANGED <<histVars, forumVars>>
    \/ \E c \in Calls : VoteDeleteDoc(c) /\ UNCHANGED <<histVars, forumVars>>
    \/ \E c \in Calls : VoteUpdateDocUnvote(c) /\ UNCHANGED <<histVars, forumVars>>
    \/ \E c \in Calls : VoteUpdateDoc(c) /\ UNCHANGED <<histVars, forumVars>>
    \/ \E c \in Calls : VoteSetDoc(c) /\ UNCHANGED <<histVars, forumVars>>
    \/ \E postId \in PostIds, title \in RawTitles, content \in RawContents :
          MayCall /\ updatePost(postId, title, content)
    \/ \E postId \in PostIds, uid \in Authors :
          MayCall /\ createComment(postId, uid, "c1")
    \/ \E fromUid \in Uids, postId \in DOMAIN posts :
          MayCall /\ createNotificationCall("upvote", posts[postId].uid, fromUid, postId)
    \/ \E postId \in PostIds : MayCall /\ generatePostSummary("g1", postId)
    \/ \E postId \in PostIds : MayCall /\ generateCommentSummary("g1", postId)
    \/ GenSummarized("g1")
    \/ GenNoSummary("g1")
    \/ GenAddDoc("g1")

SpecForum == Init /\ [][ForumNext]_vars

\* this step is the counter write of a vote call on postId
VoteCounterStep(postId) ==
    \E c \in Calls :
        /\ call[c].pc \in {"L143", "L155"}
        /\ call'[c].pc # call[c].pc
        /\ call[c].postId = postId

\* this step is the VoteRecord write of a vote call of uid on postId
VoteRecordStep(postId, uid) ==
    \E c \in Calls :
        /\ call[c].pc \in {"L141", "L156"}
        /\ call'[c].pc # call[c].pc
        /\ call[c].postId = postId
        /\ call[c].uid = uid

\* C20: a new post starts at upVotes = downVotes = 0; the counters of a post
\* change only in a step of a vote call on that post; a VoteRecord changes
\* only in a step of a vote call of that voter on that post; a step of a vote
\* call leaves title and content of every post as they are; so updatePost,
\* createComment, createNotification and the summary operations change
\* neither counters nor VoteRecords.
C20_CounterOwnership ==
    [][/\ \A postId \in DOMAIN posts' \ DOMAIN posts :
             posts'[postId].upVotes = 0 /\ posts'[postId].downVotes = 0
       /\ \A postId \in DOMAIN posts :
             /\ postId \in DOMAIN posts'
             /\ Counters(posts')[postId] # Counters(posts)[postId]
                   => VoteCounterStep(postId)
             /\ call' # call
                   => /\ posts'[postId].title = posts[postId].title
                      /\ posts'[postId].content = posts[postId].content
       /\ \A postId \in PostIds, uid \in Uids :
             getDoc(votes', voteDocRef(postId, uid)) # getDoc(votes, voteDocRef(postId, uid))
                => VoteRecordStep(postId, uid)
       /\ (edits' # edits \/ comments' # comments \/ notifications' # notifications
              \/ gen' # gen)
             => (votes' = votes /\ Counters(posts') = Counters(posts))]_vars

\* one post has been voted on and edited, the other has not been voted on,
\* and a comment, a notification or a summary call has been made
C20_Witness ==
    \E p \in DOMAIN posts, q \in DOMAIN posts :
        /\ p # q
        /\ posts[p].upVotes + posts[p].downVotes > 0
        /\ posts[p].content = "c2"
        /\ \E d \in votes : d.postId = p
        /\ Counters(posts)[q] = <<0, 0>>
        /\ Len(comments) + NotificationDocs + generations > 0

====
